---- MODULE Spec2Model ----
(***************************************************************************)
(* Drone delivery dispatcher: Drone (battery simulator), DispatchServer    *)
(* (trip builders, schedulers, delivery loop).                             *)
(*                                                                         *)
(* Representation.  An Order object is an index into objs (its identity);  *)
(* lists of orders are sequences of such indices.  A battery charge c of   *)
(* the program is represented by the integer c * consumption_factor, so    *)
(* full charge 1 is consumption_factor and the depleted value -1 is        *)
(* -consumption_factor; get_percent_battery_required's division by         *)
(* consumption_factor is then exact.                                       *)
(***************************************************************************)
EXTENDS Integers, Sequences, FiniteSets, TLC

\* ------------------------------------------------------------------ bounds
MaxOrders == 2      \* orders added to the server
MaxObjects == 2     \* Order objects created by the caller of a drone used on its own
MaxDirect == 1      \* orders a caller loads directly onto the server's delivery drone
MaxLoad == 2        \* orders committed to a drone used on its own
MaxCandidates == 3  \* orders in a candidate list given to a trip builder

\* ------------------------------------------------------- program constants
empty_overhead == 512
consumption_factor == 36739

Full == consumption_factor          \* battery_charge = 1
Depleted == 0 - consumption_factor  \* run_trip's return value -1

\* ------------------------------------------------------------------ inputs
Zones == 0..2

\* distance matrices loaded by DeliveryZones.load_matrix (zone 0 = warehouse)
MatrixA == <<  <<0, 10, 15>>, <<10, 0, 8>>, <<15, 8, 0>>  >>
MatrixB == <<  <<0, 20, 12>>, <<20, 0, 25>>, <<12, 25, 0>>  >>
Matrices == {MatrixA, MatrixB}

Ord(ts, z, w, u, s, f, h, p) ==
  [timestamp |-> ts, delivery_zone |-> z, weight |-> w, user_id |-> u,
   subscriber |-> s, fragile |-> f, hazardous |-> h, perishable |-> p]

\* the argument tuples add_order is called with (order_id apart)
FragileLight    == Ord(0, 1, 100,  1, FALSE, TRUE,  FALSE, FALSE)
HazardousLight  == Ord(1, 1, 100,  1, FALSE, FALSE, TRUE,  FALSE)  \* same zone, customer
UrgentHazardous == Ord(0, 2, 100,  2, TRUE,  FALSE, TRUE,  TRUE)   \* perishable, subscriber
Heavy           == Ord(1, 2, 1000, 2, FALSE, FALSE, FALSE, FALSE)
HeavySubscriber == Ord(0, 1, 1000, 1, TRUE,  FALSE, FALSE, FALSE)
TooHeavy        == Ord(0, 2, 3000, 1, FALSE, TRUE,  FALSE, TRUE)   \* cannot fly alone

OrderInputs ==
  { FragileLight, HazardousLight, UrgentHazardous, Heavy, HeavySubscriber, TooHeavy }

\* the candidate lists given to a trip builder called on its own: a third
\* customer, whose heavy order is less urgent than the light ones
HeavyLate == Ord(1, 1, 1000, 3, FALSE, FALSE, FALSE, FALSE)

BuilderInputs == OrderInputs \cup { HeavyLate }

\* the orders given to a drone used on its own: a drone reads the zone and
\* the weight of an order only
DroneOrderInputs == { FragileLight, UrgentHazardous, Heavy }

VARIABLES
  distance_matrix,     \* DeliveryZones.distance_matrix
  objs,                \* the Order objects created so far
  unpackaged_orders,   \* DispatchServer.unpackaged_orders
  trips,               \* DispatchServer.trips
  delivery_drone,      \* DispatchServer.delivery_drone: [orders, battery_charge]
  payload_test_drone,  \* DispatchServer.payload_test_drone: [orders, battery_charge]
  pc,                  \* the server method in progress, "idle" when none
  heap,                \* local of _package_trips_optimal / orders of schedule_orders
  call,                \* the running call: backlog size at entry, iterations done
  event                \* outcome of the last step

vars == << distance_matrix, objs, unpackaged_orders, trips, delivery_drone,
           payload_test_drone, pc, heap, call, event >>

\* ------------------------------------------------------------ list helpers
Insert(s, pos, x) == SubSeq(s, 1, pos) \o <<x>> \o SubSeq(s, pos + 1, Len(s))

Range(s) == { s[i] : i \in 1..Len(s) }

Without(s, S) == SelectSeq(s, LAMBDA x : x \notin S)

RECURSIVE Flatten(_)
Flatten(ss) == IF ss = <<>> THEN <<>> ELSE Head(ss) \o Flatten(Tail(ss))

Count(s, x) == Cardinality({ i \in 1..Len(s) : s[i] = x })

\* list.remove(x): drops the first occurrence
RECURSIVE RemoveFirst(_, _)
RemoveFirst(s, x) ==
  IF s = <<>> THEN <<>>
  ELSE IF Head(s) = x THEN Tail(s) ELSE <<Head(s)>> \o RemoveFirst(Tail(s), x)

RECURSIVE RemoveEach(_, _)
RemoveEach(s, xs) ==
  IF xs = <<>> THEN s ELSE RemoveEach(RemoveFirst(s, Head(xs)), Tail(xs))

\* ------------------------------------------------------------ DeliveryZones
distance_between(origin_zone, destination_zone) ==
  distance_matrix[origin_zone + 1][destination_zone + 1]

\* ------------------------------------------------------------------- Drone
get_percent_battery_required(weight, distance) ==
  distance * (weight + empty_overhead)

RECURSIVE PayloadOf(_)
PayloadOf(orders) ==
  IF orders = <<>> THEN 0 ELSE objs[Head(orders)].weight + PayloadOf(Tail(orders))

\* RunLegs with the payload never lightened by a drop
RECURSIVE RunLegsFullPayload(_, _, _, _, _)
RunLegsFullPayload(orders, i, battery_charge, payload_weight, previous_destination) ==
  IF i > Len(orders)
  THEN [dead |-> FALSE, battery_charge |-> battery_charge,
        previous_destination |-> previous_destination, legs |-> Len(orders)]
  ELSE LET order == objs[orders[i]]
           b == battery_charge - get_percent_battery_required(payload_weight,
                  distance_between(previous_destination, order.delivery_zone))
       IN IF b < 0
          THEN [dead |-> TRUE, battery_charge |-> b,
                previous_destination |-> order.delivery_zone, legs |-> i]
          ELSE RunLegsFullPayload(orders, i + 1, b, payload_weight,
                                  order.delivery_zone)

\* the delivery loop of run_trip from order i on; dead = returned -1 inside
\* it, legs = the legs flown
RECURSIVE RunLegs(_, _, _, _, _)
RunLegs(orders, i, battery_charge, payload_weight, previous_destination) ==
  IF i > Len(orders)
  THEN [dead |-> FALSE, battery_charge |-> battery_charge,
        previous_destination |-> previous_destination, legs |-> Len(orders)]
  ELSE LET order == objs[orders[i]]
           b == battery_charge - get_percent_battery_required(payload_weight,
                  distance_between(previous_destination, order.delivery_zone))
       IN IF b < 0
          THEN [dead |-> TRUE, battery_charge |-> b,
                previous_destination |-> order.delivery_zone, legs |-> i]
          ELSE RunLegs(orders, i + 1, b, payload_weight - order.weight,
                       order.delivery_zone)

\* run_trip without the check after the return leg
run_trip_unchecked_return(orders, simulated_trip, stored_charge) ==
  LET start == IF simulated_trip THEN Full ELSE stored_charge
      legs  == RunLegs(orders, 1, start, PayloadOf(orders), 0)
      back  == legs.battery_charge - get_percent_battery_required(0,
                 distance_between(legs.previous_destination, 0))
  IN IF legs.dead
     THEN [ret |-> Depleted, orders |-> orders, legs |-> legs.legs,
           stored |-> stored_charge]
     ELSE [ret    |-> back,
           orders |-> IF simulated_trip THEN orders ELSE <<>>,
           legs   |-> legs.legs + 1, stored |-> stored_charge]

\* run_trip popping the orders delivered before the battery died
run_trip_pops_on_death(orders, simulated_trip, stored_charge) ==
  LET start == IF simulated_trip THEN Full ELSE stored_charge
      legs  == RunLegs(orders, 1, start, PayloadOf(orders), 0)
      back  == legs.battery_charge - get_percent_battery_required(0,
                 distance_between(legs.previous_destination, 0))
  IN IF legs.dead
     THEN [ret |-> Depleted,
           orders |-> IF simulated_trip THEN orders
                      ELSE SubSeq(orders, legs.legs, Len(orders)),
           legs |-> legs.legs, stored |-> stored_charge]
     ELSE [ret    |-> IF back < 0 THEN Depleted ELSE back,
           orders |-> IF simulated_trip THEN orders ELSE <<>>,
           legs   |-> legs.legs + 1, stored |-> stored_charge]

\* run_trip starting a real trip from a full battery as well
run_trip_always_full(orders, simulated_trip, stored_charge) ==
  LET start == Full
      legs  == RunLegs(orders, 1, start, PayloadOf(orders), 0)
      back  == legs.battery_charge - get_percent_battery_required(0,
                 distance_between(legs.previous_destination, 0))
  IN IF legs.dead
     THEN [ret |-> Depleted, orders |-> orders, legs |-> legs.legs,
           stored |-> stored_charge]
     ELSE [ret    |-> IF back < 0 THEN Depleted ELSE back,
           orders |-> IF simulated_trip THEN orders ELSE <<>>,
           legs   |-> legs.legs + 1, stored |-> stored_charge]

\* run_trip popping the delivered orders and keeping the balance in the
\* drone's battery_charge in a simulation too
run_trip_simulation_acts(orders, simulated_trip, stored_charge) ==
  LET start == IF simulated_trip THEN Full ELSE stored_charge
      legs  == RunLegs(orders, 1, start, PayloadOf(orders), 0)
      back  == legs.battery_charge - get_percent_battery_required(0,
                 distance_between(legs.previous_destination, 0))
  IN IF legs.dead
     THEN [ret |-> Depleted, orders |-> orders, legs |-> legs.legs,
           stored |-> legs.battery_charge]
     ELSE [ret    |-> IF back < 0 THEN Depleted ELSE back,
           orders |-> <<>>,
           legs   |-> legs.legs + 1, stored |-> back]

\* run_trip on a drone whose stored charge is stored_charge: the value
\* returned, the list `orders` as the call leaves it, the number of legs
\* flown (legs whose consumption was deducted) and self.battery_charge as
\* the call leaves it (the balance is kept in a local)
run_trip(orders, simulated_trip, stored_charge) ==
  LET start == IF simulated_trip THEN Full ELSE stored_charge
      legs  == RunLegs(orders, 1, start, PayloadOf(orders), 0)
      back  == legs.battery_charge - get_percent_battery_required(0,
                 distance_between(legs.previous_destination, 0))
  IN IF legs.dead
     THEN [ret |-> Depleted, orders |-> orders, legs |-> legs.legs,
           stored |-> stored_charge]
     ELSE [ret    |-> IF back < 0 THEN Depleted ELSE back,
           orders |-> IF simulated_trip THEN orders ELSE <<>>,
           legs   |-> legs.legs + 1, stored |-> stored_charge]

simulate_trip_with_added_order(orders, new_order, position) ==
  run_trip(Insert(orders, position, new_order), TRUE, Full).ret

\* position (0-based) of new_order in the committed list `orders`, -1 if none
find_best_order_position(orders, new_order) ==
  LET charge == [ p \in 0..Len(orders) |->
                    simulate_trip_with_added_order(orders, new_order, p) ]
      ok == { p \in 0..Len(orders) : charge[p] >= 0 }
      best == { p \in ok : \A q \in ok : charge[p] >= charge[q] }
  IN IF ok = {} THEN 0 - 1
     ELSE CHOOSE p \in best : \A q \in best : p <= q

Drone_add_order(orders, order, position) == Insert(orders, position, order)

\* ---------------------------------------------------------- sorting, keys
\* tuple comparison of Python: lexicographic, on tuples of equal length
RECURSIVE TupleLess(_, _)
TupleLess(a, b) ==
  IF a = <<>> THEN FALSE
  ELSE IF Head(a) # Head(b) THEN Head(a) < Head(b)
  ELSE TupleLess(Tail(a), Tail(b))

\* x goes after every element whose key is not greater (sorted() is stable)
RECURSIVE InsertSorted(_, _, _)
InsertSorted(s, x, key) ==
  IF s = <<>> THEN <<x>>
  ELSE IF TupleLess(key[x], key[Head(s)]) THEN <<x>> \o s
  ELSE <<Head(s)>> \o InsertSorted(Tail(s), x, key)

RECURSIVE SortedBy(_, _)
SortedBy(s, key) ==
  IF s = <<>> THEN <<>>
  ELSE InsertSorted(SortedBy(SubSeq(s, 1, Len(s) - 1), key), s[Len(s)], key)

priority_score(o) ==
  (IF objs[o].perishable THEN 0 ELSE 2) + (IF objs[o].subscriber THEN 0 ELSE 1)

KeyExtractor(k, o) ==
  CASE k = "user_id"        -> objs[o].user_id
    [] k = "delivery_zone"  -> objs[o].delivery_zone
    [] k = "timestamp"      -> objs[o].timestamp
    [] k = "priority_score" -> priority_score(o)

\* the key without its order_id tiebreak
priority_key_without_id(o) ==
  << priority_score(o), objs[o].timestamp, objs[o].delivery_zone >>

priority_key(o) ==
  << priority_score(o), objs[o].timestamp, objs[o].delivery_zone, objs[o].order_id >>

build_composite_key(o, sort_keys) ==
  [ i \in 1..Len(sort_keys) |-> KeyExtractor(sort_keys[i], o) ] \o << objs[o].order_id >>

\* HeapPopAll keeping the order in which the orders were pushed
HeapPopAllUnsorted(orders) == orders

\* what popping the whole min-heap of (key, order) pairs yields
HeapPopAll(orders) ==
  SortedBy(orders, [ o \in 1..Len(objs) |-> priority_key(o) ])

\* ---------------------------------------------------------- trip builders
\* PlaceOrder without the `best_pos >= 0` test (list.insert(-1, x) puts x
\* before the last element)
PlaceOrderUnchecked(st, order) ==
  IF objs[order].fragile /\ st.trip_has_hazardous THEN st
  ELSE IF objs[order].hazardous /\ st.trip_has_fragile THEN st
  ELSE LET best_pos == find_best_order_position(st.orders, order)
           at == IF best_pos >= 0 THEN best_pos
                 ELSE IF st.orders = <<>> THEN 0 ELSE Len(st.orders) - 1
       IN [orders |-> Drone_add_order(st.orders, order, at),
           trip   |-> Append(st.trip, order),
           trip_has_fragile   |-> st.trip_has_fragile \/ objs[order].fragile,
           trip_has_hazardous |-> st.trip_has_hazardous \/ objs[order].hazardous]

\* PlaceOrder without the hazardous-after-fragile test
PlaceOrderHalfExclusion(st, order) ==
  IF objs[order].fragile /\ st.trip_has_hazardous THEN st
  ELSE LET best_pos == find_best_order_position(st.orders, order)
       IN IF best_pos >= 0
          THEN [orders |-> Drone_add_order(st.orders, order, best_pos),
                trip   |-> Append(st.trip, order),
                trip_has_fragile   |-> st.trip_has_fragile \/ objs[order].fragile,
                trip_has_hazardous |-> st.trip_has_hazardous \/ objs[order].hazardous]
          ELSE st

\* one pass of the insertion loop of build_most_optimal_trip over `list`;
\* st = the test drone's committed orders, the local trip, the two flags
PlaceOrder(st, order) ==
  IF objs[order].fragile /\ st.trip_has_hazardous THEN st
  ELSE IF objs[order].hazardous /\ st.trip_has_fragile THEN st
  ELSE LET best_pos == find_best_order_position(st.orders, order)
       IN IF best_pos >= 0
          THEN [orders |-> Drone_add_order(st.orders, order, best_pos),
                trip   |-> Append(st.trip, order),
                trip_has_fragile   |-> st.trip_has_fragile \/ objs[order].fragile,
                trip_has_hazardous |-> st.trip_has_hazardous \/ objs[order].hazardous]
          ELSE st

\* the loop ended by the first order that is skipped
RECURSIVE PlaceAllStopsAtSkip(_, _)
PlaceAllStopsAtSkip(st, list) ==
  IF list = <<>> THEN st
  ELSE LET next == [attempted |-> Append(st.attempted, Head(list))]
                     @@ PlaceOrder(st, Head(list))
       IN IF next.trip = st.trip THEN next
          ELSE PlaceAllStopsAtSkip(next, Tail(list))

\* `for order in list`: every element is attempted in turn, placed or
\* skipped (continue); attempted = the orders the loops have come to
RECURSIVE PlaceAll(_, _)
PlaceAll(st, list) ==
  IF list = <<>> THEN st
  ELSE PlaceAll([attempted |-> Append(st.attempted, Head(list))]
                  @@ PlaceOrder(st, Head(list)),
                Tail(list))

\* remaining.sort left out
SortHeaviestFirstSkipped(list) == list

\* remaining.sort(key=lambda o: -o.get_weight())
SortHeaviestFirst(list) ==
  SortedBy(list, [ o \in 1..Len(objs) |-> << 0 - objs[o].weight >> ])

\* ReturnTrip without remove_all_orders
ReturnTripKeepsOrders(st) ==
  [trip |-> st.orders, drone_orders |-> st.orders, attempted |-> st.attempted]

\* trip = list(get_orders()); remove_all_orders(); return trip
ReturnTrip(st) ==
  [trip |-> st.orders, drone_orders |-> <<>>, attempted |-> st.attempted]

\* the trip returned, the test drone's committed orders after the call, and
\* the orders its two loops came to, in that order
build_most_optimal_trip(orders, drone_orders) ==
  IF orders = <<>>
  THEN [trip |-> <<>>, drone_orders |-> drone_orders, attempted |-> <<>>]
  ELSE
    LET first == orders[1]
        customer_id == objs[first].user_id
        customer_orders == SelectSeq(orders, LAMBDA o : objs[o].user_id = customer_id)
        st0 == [orders |-> drone_orders, trip |-> <<>>,
                trip_has_fragile |-> FALSE, trip_has_hazardous |-> FALSE,
                attempted |-> <<>>]
        st1 == PlaceAll(st0, customer_orders)
        remaining == SortHeaviestFirst(Without(orders, Range(st1.trip)))
    IN ReturnTrip(PlaceAll(st1, remaining))

\* the attributes Drone.__init__ gives a drone
DroneAttributes == {"delivery_zones", "battery_charge", "orders"}

\* build_trip: its loop reads payload_test_drone.weight_limit in the first
\* iteration, an attribute no Drone has, so it raises with a non-empty list
build_trip(orders, drone_orders) ==
  IF orders # <<>> /\ "weight_limit" \notin DroneAttributes
  THEN [raised |-> TRUE, trip |-> <<>>, drone_orders |-> drone_orders]
  ELSE [raised |-> FALSE, trip |-> drone_orders, drone_orders |-> <<>>]

\* the sort_keys lists the analysis harness passes to schedule_orders
SortKeyLists == { << "delivery_zone" >>, << "priority_score" >>,
                  << "priority_score", "delivery_zone", "timestamp" >> }

\* ------------------------------------------------------------------ state
Drone == [orders |-> <<>>, battery_charge |-> Full]

NoCall == [n |-> 0, iterations |-> 0]

Ev(kind, trip) == [kind |-> kind, trip |-> trip]

Init ==
  /\ distance_matrix \in Matrices
  /\ objs = <<>>
  /\ unpackaged_orders = <<>>
  /\ trips = <<>>
  /\ delivery_drone = Drone
  /\ payload_test_drone = Drone
  /\ pc = "idle"
  /\ heap = <<>>
  /\ call = NoCall
  /\ event = Ev("init", <<>>)

\* Order(order_id, ...): a new object.  Order ids are unique (the data
\* model's precondition): the n-th order created has order_id n
NewOrder(in) == Append(objs, [order_id |-> Len(objs) + 1] @@ in)

\* DispatchServer.add_order
AddOrder ==
  /\ pc = "idle"
  /\ Len(objs) < MaxOrders
  /\ \E in \in OrderInputs :
       /\ objs' = NewOrder(in)
       /\ unpackaged_orders' = Append(unpackaged_orders, Len(objs) + 1)
  /\ event' = Ev("add_order", <<>>)
  /\ call' = NoCall
  /\ UNCHANGED << distance_matrix, trips, delivery_drone, payload_test_drone,
                  pc, heap >>

\* -------------------------------------------- _package_trips_optimal
\* An iteration's outcome: the method's next position, its heap, the
\* server's backlog and trip list, and what happened.

\* NoTripBuilt without the break
NoTripBuiltContinues(items, backlog, trip_list, trip) ==
  [pc |-> "optimal", heap |-> items, unpackaged_orders |-> backlog,
   trips |-> trip_list, event |-> Ev("dead_end", trip)]

\* NoTripBuilt taking the candidates out of the backlog
NoTripBuiltDropsOrders(items, backlog, trip_list, trip) ==
  [pc |-> "idle", heap |-> <<>>, unpackaged_orders |-> RemoveEach(backlog, items),
   trips |-> trip_list, event |-> Ev("dead_end", trip)]

\* `if not trip`: everything is put back and the loop is left
NoTripBuilt(items, backlog, trip_list, trip) ==
  [pc |-> "idle", heap |-> <<>>, unpackaged_orders |-> backlog,
   trips |-> trip_list, event |-> Ev("dead_end", trip)]

\* TripBuilt without the removal from unpackaged_orders
TripBuiltKeepsBacklog(items, backlog, trip_list, trip) ==
  LET rest == Without(items, Range(trip))
  IN [pc |-> IF rest = <<>> THEN "idle" ELSE "optimal",
      heap |-> IF rest = <<>> THEN <<>> ELSE rest,
      unpackaged_orders |-> backlog,
      trips |-> Append(trip_list, trip), event |-> Ev("trip", trip)]

\* a trip was built: its orders leave the backlog, the rest is pushed back
TripBuilt(items, backlog, trip_list, trip) ==
  LET rest == Without(items, Range(trip))
  IN [pc |-> IF rest = <<>> THEN "idle" ELSE "optimal",
      heap |-> IF rest = <<>> THEN <<>> ELSE rest,
      unpackaged_orders |-> RemoveEach(backlog, trip),
      trips |-> Append(trip_list, trip), event |-> Ev("trip", trip)]

\* entry: the heap is loaded; the while loop is entered unless it is empty
PackageTrips ==
  /\ pc = "idle"
  /\ heap' = HeapPopAll(unpackaged_orders)
  /\ call' = [n |-> Len(unpackaged_orders), iterations |-> 0]
  /\ pc' = IF heap' = <<>> THEN "idle" ELSE "optimal"
  /\ event' = Ev("package_trips", <<>>)
  /\ UNCHANGED << distance_matrix, objs, unpackaged_orders, trips,
                  delivery_drone, payload_test_drone >>

\* the body of the while loop: the builder is called on the popped items
OptimalIteration(items, backlog, trip_list, drone_orders) ==
  LET orders_only == items
      r == build_most_optimal_trip(orders_only, drone_orders)
  IN [drone_orders |-> r.drone_orders,
      out |-> IF r.trip = <<>> THEN NoTripBuilt(items, backlog, trip_list, r.trip)
              ELSE TripBuilt(items, backlog, trip_list, r.trip)]

\* one iteration of the while loop
PackageTripsIteration ==
  /\ pc = "optimal"
  /\ \E it \in { OptimalIteration(heap, unpackaged_orders, trips,
                                  payload_test_drone.orders) } :
        /\ payload_test_drone' = [payload_test_drone EXCEPT !.orders = it.drone_orders]
        /\ pc' = it.out.pc
        /\ heap' = it.out.heap
        /\ unpackaged_orders' = it.out.unpackaged_orders
        /\ trips' = it.out.trips
        /\ event' = it.out.event
  /\ call' = [call EXCEPT !.iterations = @ + 1]
  /\ UNCHANGED << distance_matrix, objs, delivery_drone >>

\* -------------------------------------------------------- schedule_orders
\* entry: the backlog is sorted once into the local list `orders` (heap)
ScheduleOrders ==
  /\ pc = "idle"
  /\ \E sort_keys \in SortKeyLists :
       heap' = SortedBy(unpackaged_orders,
                 [ o \in 1..Len(objs) |-> build_composite_key(o, sort_keys) ])
  /\ call' = [n |-> Len(unpackaged_orders), iterations |-> 0]
  /\ pc' = IF heap' = <<>> THEN "idle" ELSE "schedule"
  /\ event' = Ev("schedule_orders", <<>>)
  /\ UNCHANGED << distance_matrix, objs, unpackaged_orders, trips,
                  delivery_drone, payload_test_drone >>

\* one iteration of its while loop; self.unpackaged_orders is not touched
ScheduleOrdersIteration ==
  /\ pc = "schedule"
  /\ LET r == build_trip(heap, payload_test_drone.orders)
     IN /\ payload_test_drone' = [payload_test_drone EXCEPT !.orders = r.drone_orders]
        /\ call' = [call EXCEPT !.iterations = @ + 1]
        /\ IF r.raised
           THEN /\ pc' = "idle"
                /\ heap' = <<>>
                /\ event' = Ev("AttributeError", <<>>)
                /\ UNCHANGED trips
           ELSE IF r.trip = <<>>
           THEN /\ pc' = "idle"
                /\ heap' = <<>>
                /\ event' = Ev("dead_end", r.trip)
                /\ UNCHANGED trips
           ELSE /\ heap' = Without(heap, Range(r.trip))
                /\ trips' = Append(trips, r.trip)
                /\ pc' = IF heap' = <<>> THEN "idle" ELSE "schedule"
                /\ event' = Ev("trip", r.trip)
  /\ UNCHANGED << distance_matrix, objs, unpackaged_orders, delivery_drone >>

\* ------------------------------------------------------------ Drone calls
\* Drone.deliver_orders on a drone d: the drone afterwards, whether
\* DeliveryException was raised, and the run_trip call made
Drone_deliver_orders(d) ==
  LET r == run_trip(d.orders, FALSE, d.battery_charge)
  IN [drone  |-> [orders |-> r.orders, battery_charge |-> r.ret],
      raised |-> r.ret < 0,
      rt     |-> [orders |-> d.orders, simulated_trip |-> FALSE,
                  start |-> d.battery_charge, ret |-> r.ret,
                  legs |-> r.legs, after |-> r.orders]]

Drone_recharge(d) == [d EXCEPT !.battery_charge = Full]

Drone_remove_all_orders(d) == [d EXCEPT !.orders = <<>>]

\* ------------------------------------------- DispatchServer.deliver_orders
\* DeliveryFailed going on with the next trip
DeliveryFailedContinues(drone, trip_list) ==
  [pc |-> IF trip_list = <<>> THEN "idle" ELSE "deliver",
   delivery_drone |-> drone, kind |-> "DeliveryException", raised |-> FALSE]

\* the except branch: the exception is printed and the method returns;
\* raised = the method ends by raising to its caller
DeliveryFailed(drone, trip_list) ==
  [pc |-> "idle", delivery_drone |-> drone, kind |-> "DeliveryException",
   raised |-> FALSE]

\* DeliveryDone without the recharge
DeliveryDoneNoRecharge(drone, trip_list) ==
  [pc |-> IF trip_list = <<>> THEN "idle" ELSE "deliver",
   delivery_drone |-> drone, kind |-> "delivered", raised |-> FALSE]

\* no exception: the drone is recharged and the while loop goes on
DeliveryDone(drone, trip_list) ==
  [pc |-> IF trip_list = <<>> THEN "idle" ELSE "deliver",
   delivery_drone |-> Drone_recharge(drone), kind |-> "delivered",
   raised |-> FALSE]

DeliverOrders ==
  /\ pc = "idle"
  /\ pc' = IF trips = <<>> THEN "idle" ELSE "deliver"
  /\ call' = [n |-> Len(trips), iterations |-> 0]
  /\ event' = Ev("deliver_orders", <<>>)
  /\ UNCHANGED << distance_matrix, objs, unpackaged_orders, trips,
                  delivery_drone, payload_test_drone, heap >>

\* the body of the while loop: trips[0] is loaded, popped and delivered
DeliveryIteration(drone, trip_list) ==
  LET trip == trip_list[1]
      loaded == [drone EXCEPT !.orders = @ \o trip]
      r == Drone_deliver_orders(loaded)
  IN [out |-> IF r.raised THEN DeliveryFailed(r.drone, Tail(trip_list))
              ELSE DeliveryDone(r.drone, Tail(trip_list)),
      trip |-> trip, rt |-> r.rt]

\* one iteration of its while loop
DeliverOrdersIteration ==
  /\ pc = "deliver"
  /\ \E it \in { DeliveryIteration(delivery_drone, trips) } :
        /\ delivery_drone' = it.out.delivery_drone
        /\ pc' = it.out.pc
        /\ event' = [kind |-> it.out.kind, trip |-> it.trip,
                     before |-> delivery_drone.orders, rt |-> it.rt,
                     raised |-> it.out.raised]
  /\ trips' = Tail(trips)
  /\ call' = [call EXCEPT !.iterations = @ + 1]
  /\ UNCHANGED << distance_matrix, objs, unpackaged_orders, payload_test_drone, heap >>

\* ------------------------------------------------- a Drone used directly
\* Drone.add_order(order, position) by a caller, up to `limit` orders; the
\* caller loads an order the drone does not hold yet
DroneAddOrder(limit) ==
  /\ pc = "idle"
  /\ Len(delivery_drone.orders) < limit
  /\ \E o \in (1..Len(objs)) \ Range(delivery_drone.orders),
          position \in 0..Len(delivery_drone.orders) :
       delivery_drone' = [delivery_drone EXCEPT
                            !.orders = Drone_add_order(@, o, position)]
  /\ event' = Ev("drone.add_order", <<>>)
  /\ call' = NoCall
  /\ UNCHANGED << distance_matrix, objs, unpackaged_orders, trips,
                  payload_test_drone, pc, heap >>

\* a caller loads an order directly onto server.delivery_drone.  The load
\* commutes with add_order and the schedulers, which leave the delivery
\* drone alone, so it is taken once trips wait for delivery
LoadDeliveryDrone == trips # <<>> /\ DroneAddOrder(MaxDirect)

\* Order(...) by a caller that uses a drone on its own
CreateOrder ==
  /\ Len(objs) < MaxObjects
  /\ \E in \in DroneOrderInputs : objs' = NewOrder(in)
  /\ event' = Ev("Order", <<>>)
  /\ UNCHANGED << distance_matrix, unpackaged_orders, trips, delivery_drone,
                  payload_test_drone, pc, heap, call >>

DroneLoad == DroneAddOrder(MaxLoad)

DroneRemoveAllOrders ==
  /\ delivery_drone' = Drone_remove_all_orders(delivery_drone)
  /\ event' = Ev("drone.remove_all_orders", <<>>)
  /\ UNCHANGED << distance_matrix, objs, unpackaged_orders, trips,
                  payload_test_drone, pc, heap, call >>

DroneRecharge ==
  /\ delivery_drone' = Drone_recharge(delivery_drone)
  /\ event' = Ev("drone.recharge", <<>>)
  /\ UNCHANGED << distance_matrix, objs, unpackaged_orders, trips,
                  payload_test_drone, pc, heap, call >>

DroneDeliverOrders ==
  /\ LET r == Drone_deliver_orders(delivery_drone)
     IN /\ delivery_drone' = r.drone
        /\ event' = [kind |-> IF r.raised THEN "drone.DeliveryException"
                              ELSE "drone.delivered",
                     before |-> delivery_drone.orders, rt |-> r.rt]
  /\ UNCHANGED << distance_matrix, objs, unpackaged_orders, trips,
                  payload_test_drone, pc, heap, call >>

\* run_trip(self.orders, True): a feasibility probe of the committed list;
\* the list passed is the drone's own list object
DroneRunTrip ==
  /\ \E r \in { run_trip(delivery_drone.orders, TRUE, delivery_drone.battery_charge) } :
       /\ delivery_drone' = [orders |-> r.orders, battery_charge |-> r.stored]
       /\ event' = [kind |-> "drone.run_trip",
                    rt |-> [orders |-> delivery_drone.orders, simulated_trip |-> TRUE,
                            start |-> Full, ret |-> r.ret, legs |-> r.legs,
                            after |-> r.orders]]
  /\ UNCHANGED << distance_matrix, objs, unpackaged_orders, trips,
                  payload_test_drone, pc, heap, call >>

DroneFindBestOrderPosition ==
  /\ \E new_order \in 1..Len(objs) :
       event' = [kind |-> "drone.find_best_order_position",
                 orders |-> delivery_drone.orders, new_order |-> new_order,
                 ret |-> find_best_order_position(delivery_drone.orders, new_order)]
  /\ UNCHANGED << distance_matrix, objs, unpackaged_orders, trips, delivery_drone,
                  payload_test_drone, pc, heap, call >>

Next ==
  \/ AddOrder
  \/ PackageTrips
  \/ PackageTripsIteration
  \/ ScheduleOrders
  \/ ScheduleOrdersIteration
  \/ DeliverOrders
  \/ DeliverOrdersIteration
  \/ LoadDeliveryDrone

Spec == Init /\ [][Next]_vars

\* scheduling alone: orders are added and packed, none is delivered
SchedulerNext ==
  \/ AddOrder
  \/ PackageTrips
  \/ PackageTripsIteration
  \/ ScheduleOrders
  \/ ScheduleOrdersIteration

SchedulerSpec == Init /\ [][SchedulerNext]_vars

\* a Drone driven through its own methods
\* ------------------------------------------------ a builder called directly
\* Order(...) by a caller that builds a trip itself
BuilderCreateOrder ==
  /\ Len(objs) < MaxCandidates
  /\ \E in \in BuilderInputs : objs' = NewOrder(in)
  /\ event' = Ev("Order", <<>>)
  /\ UNCHANGED << distance_matrix, unpackaged_orders, trips, delivery_drone,
                  payload_test_drone, pc, heap, call >>

\* build_most_optimal_trip(orders) on the orders created so far, handed over
\* in priority order as the method expects
BuildMostOptimalTrip ==
  /\ \E r \in { build_most_optimal_trip(HeapPopAll([ i \in 1..Len(objs) |-> i ]),
                                         payload_test_drone.orders) } :
       /\ payload_test_drone' = [payload_test_drone EXCEPT !.orders = r.drone_orders]
       /\ event' = [kind |-> "build_most_optimal_trip",
                    orders |-> HeapPopAll([ i \in 1..Len(objs) |-> i ]),
                    trip |-> r.trip, attempted |-> r.attempted,
                    before |-> payload_test_drone.orders]
  /\ UNCHANGED << distance_matrix, objs, unpackaged_orders, trips, delivery_drone,
                  pc, heap, call >>

BuilderNext ==
  \/ BuilderCreateOrder
  \/ BuildMostOptimalTrip

BuilderSpec == Init /\ [][BuilderNext]_vars

DroneNext ==
  \/ CreateOrder
  \/ DroneLoad
  \/ DroneRemoveAllOrders
  \/ DroneRecharge
  \/ DroneDeliverOrders
  \/ DroneRunTrip
  \/ DroneFindBestOrderPosition

DroneSpec == Init /\ [][DroneNext]_vars

\* ========================================================== properties

\* a trip carries both a fragile and a hazardous order
Mixed(trip) ==
  /\ \E i \in 1..Len(trip) : objs[trip[i]].fragile
  /\ \E i \in 1..Len(trip) : objs[trip[i]].hazardous

\* the trips the builders have returned that the state still shows
ReturnedTrips ==
  Range(trips) \cup (IF event.kind \in {"trip", "dead_end"} THEN {event.trip} ELSE {})

\* C1: every trip a trip builder returns is feasible from full charge:
\* run_trip(trip, simulated_trip=True) does not return the depleted value -1.
C1_NoFalseFeasibility ==
  \A trip \in ReturnedTrips :
    run_trip(trip, TRUE, payload_test_drone.battery_charge).ret # Depleted

\* a builder has just returned a trip and left an order in the backlog that
\* would not have fitted at its tail
C1_Witness ==
  /\ event.kind = "trip"
  /\ event.trip # <<>>
  /\ \E o \in Range(unpackaged_orders) :
       run_trip(Append(event.trip, o), TRUE, Full).ret = Depleted

\* C2: while orders are added and scheduled by either policy, every order
\* added to the server is exactly once in the backlog and the trips together.
C2_Partition ==
  \A o \in 1..Len(objs) :
    Count(unpackaged_orders, o) + Count(Flatten(trips), o) = 1

\* after an iteration that built a trip: orders in trips, others pending
C2_Witness ==
  /\ event.kind = "trip"
  /\ trips # <<>>
  /\ unpackaged_orders # <<>>

\* C3: no trip of the priority policy holds a fragile and a hazardous order.
C3_Exclusion == \A trip \in ReturnedTrips : ~ Mixed(trip)

\* a fragile order and a later hazardous order for the same zone, light
\* enough to fly together, are in two different trips
C3_Witness ==
  \E i, j \in 1..Len(trips) :
    /\ i # j
    /\ \E c \in Range(trips[i]), d \in Range(trips[j]) :
         /\ objs[c].fragile /\ objs[d].hazardous
         /\ objs[c].delivery_zone = objs[d].delivery_zone
         /\ objs[c].timestamp < objs[d].timestamp
         /\ run_trip(<< c, d >>, TRUE, Full).ret >= 0

\* ---- the whole of _package_trips_optimal, as its iterations compose
RECURSIVE OptimalLoop(_, _, _, _)
OptimalLoop(items, backlog, trip_list, drone_orders) ==
  IF items = <<>> THEN trip_list
  ELSE LET it == OptimalIteration(items, backlog, trip_list, drone_orders)
       IN IF it.out.pc = "idle" THEN it.out.trips
          ELSE OptimalLoop(it.out.heap, it.out.unpackaged_orders, it.out.trips,
                           it.drone_orders)

\* the trip list a run of the priority policy leaves, from a given backlog
TripsOfOptimalRun(backlog) ==
  OptimalLoop(HeapPopAll(backlog), backlog, <<>>, payload_test_drone.orders)

\* the lists holding the same orders as s, in every order of addition
Reorderings(s) ==
  { [ i \in 1..Len(s) |-> s[f[i]] ] : f \in Permutations(1..Len(s)) }

\* C4: the trip list a policy produces depends on the set of orders in the
\* backlog only, not on the order in which they were added: the priority
\* policy builds the same trips, and schedule_orders hands build_trip the
\* same sorted list, from every reordering of the backlog.
C4_Determinism ==
  pc = "idle" =>
    \A other \in Reorderings(unpackaged_orders) :
      /\ TripsOfOptimalRun(other) = TripsOfOptimalRun(unpackaged_orders)
      /\ \A sort_keys \in SortKeyLists :
           LET key == [ o \in 1..Len(objs) |-> build_composite_key(o, sort_keys) ]
           IN SortedBy(other, key) = SortedBy(unpackaged_orders, key)

\* two orders that differ in order_id only wait in the backlog, and the run
\* packs the backlog into trips
C4_Witness ==
  /\ pc = "idle"
  /\ Len(unpackaged_orders) >= 2
  /\ \E i, j \in 1..Len(unpackaged_orders) :
       /\ i < j
       /\ [objs[unpackaged_orders[i]] EXCEPT !.order_id = 0]
            = [objs[unpackaged_orders[j]] EXCEPT !.order_id = 0]
  /\ TripsOfOptimalRun(unpackaged_orders) # <<>>

\* C5: a scheduler loop entered with n orders runs at most n iterations:
\* while it runs, the iterations done plus the orders still unscheduled do
\* not exceed n, and an iteration that builds no trip ends it.
C5_Termination ==
  /\ call.iterations <= call.n
  /\ pc \in {"optimal", "schedule"} =>
       /\ heap # <<>>
       /\ call.iterations + Len(heap) <= call.n
  /\ event.kind = "dead_end" => pc = "idle"

\* a run has ended after as many iterations as it had orders, the last
\* one building no trip
C5_Witness ==
  /\ pc = "idle"
  /\ event.kind = "dead_end"
  /\ call.n >= 2
  /\ call.iterations = call.n

\* C6: an iteration that builds no trip ends the call normally, appends
\* nothing to the trip list, and leaves the backlog as it was, every
\* candidate of that iteration still in it.
C6_DeadEnd ==
  [][ (pc \in {"optimal", "schedule"} /\ event'.kind = "dead_end") =>
        /\ pc' = "idle"
        /\ trips' = trips
        /\ unpackaged_orders' = unpackaged_orders
        /\ Range(heap) \subseteq Range(unpackaged_orders')
        /\ heap # <<>> ]_vars

\* the scheduler stopped on a dead end after building a trip, orders left
C6_Witness ==
  /\ event.kind = "dead_end"
  /\ pc = "idle"
  /\ trips # <<>>
  /\ unpackaged_orders # <<>>

\* ---- the round trip, leg by leg: leg k <= Len(orders) flies to the k-th
\* order, leg Len(orders) + 1 flies back to the warehouse
LegZone(orders, k) ==
  IF k = 0 \/ k = Len(orders) + 1 THEN 0 ELSE objs[orders[k]].delivery_zone

OnBoard(orders, k) ==
  LET S == { j \in k..Len(orders) : TRUE }
      w == [ j \in 1..Len(orders) |-> objs[orders[j]].weight ]
      RECURSIVE Sum(_)
      Sum(T) == IF T = {} THEN 0
                ELSE LET j == CHOOSE x \in T : TRUE IN w[j] + Sum(T \ {j})
  IN Sum(S)

LegCost(orders, k) ==
  distance_between(LegZone(orders, k - 1), LegZone(orders, k))
    * (OnBoard(orders, k) + empty_overhead)

RECURSIVE BalanceAfter(_, _, _)
BalanceAfter(orders, start, k) ==
  IF k = 0 THEN start ELSE BalanceAfter(orders, start, k - 1) - LegCost(orders, k)

NegativeLegs(orders, start) ==
  { k \in 1..(Len(orders) + 1) : BalanceAfter(orders, start, k) < 0 }

Remaining(orders, start) ==
  IF NegativeLegs(orders, start) # {} THEN Depleted
  ELSE BalanceAfter(orders, start, Len(orders) + 1)

\* C7: find_best_order_position returns -1 exactly when the candidate
\* depletes the battery at every index 0..k; otherwise it returns the lowest
\* index among those that leave the most charge after the full round trip
\* from full charge (so at least as much as appending at the tail leaves).
C7_BestPosition ==
  event.kind = "drone.find_best_order_position" =>
    LET k == Len(event.orders)
        sim(p) == Remaining(Insert(event.orders, p, event.new_order), Full)
    IN /\ (event.ret = 0 - 1) <=> (\A p \in 0..k : sim(p) = Depleted)
       /\ event.ret # 0 - 1 =>
            /\ event.ret \in 0..k
            /\ sim(event.ret) >= 0
            /\ \A p \in 0..k : sim(event.ret) >= sim(p)
            /\ \A p \in 0..(event.ret - 1) : sim(p) < sim(event.ret)

\* two orders are committed; the best index is not the tail, though the
\* tail is feasible: it leaves less charge
C7_Witness ==
  /\ event.kind = "drone.find_best_order_position"
  /\ LET k == Len(event.orders)
         sim(p) == Remaining(Insert(event.orders, p, event.new_order), Full)
     IN /\ k = 2
        /\ event.ret \in 0..(k - 1)
        /\ sim(k) >= 0
        /\ sim(event.ret) > sim(k)

HasRunTrip ==
  event.kind \in {"drone.run_trip", "drone.delivered", "drone.DeliveryException",
                  "delivered", "DeliveryException"}

\* C8: run_trip returns -1 if and only if the balance is negative after
\* some leg of the round trip, the return leg included, and then it stopped
\* at the first such leg; otherwise it returns the balance after the return
\* leg, which is not negative.
C8_RunTrip ==
  HasRunTrip =>
    LET rt == event.rt
        neg == NegativeLegs(rt.orders, rt.start)
    IN /\ (rt.ret = Depleted) <=> (neg # {})
       /\ rt.ret < 0 => rt.ret = Depleted
       /\ neg # {} => /\ rt.legs \in neg
                      /\ \A j \in neg : rt.legs <= j
       /\ neg = {} => /\ rt.ret = BalanceAfter(rt.orders, rt.start, Len(rt.orders) + 1)
                      /\ rt.ret >= 0
                      /\ rt.legs = Len(rt.orders) + 1

\* a real trip delivered every order and died on the way back
C8_Witness ==
  /\ HasRunTrip
  /\ ~ event.rt.simulated_trip
  /\ Len(event.rt.orders) >= 2
  /\ event.rt.ret = Depleted
  /\ event.rt.legs = Len(event.rt.orders) + 1

\* C9 as stated: after a DeliveryException the drone's committed orders are
\* those it had before the call.
C9_Undrained ==
  event.kind = "drone.DeliveryException" => delivery_drone.orders = event.before

\* C9: after a DeliveryException the committed orders are those before the
\* call when the battery died on a delivery leg, and none when it died on
\* the return leg, after the last delivery.
C9_UndrainedOnDeliveryLeg ==
  event.kind = "drone.DeliveryException" =>
    IF event.rt.legs <= Len(event.before)
    THEN delivery_drone.orders = event.before
    ELSE delivery_drone.orders = <<>>

\* both cases: the drone died on the return leg and its orders are gone
C9_Witness ==
  /\ event.kind = "drone.DeliveryException"
  /\ event.before # <<>>
  /\ event.rt.legs = Len(event.before) + 1
  /\ delivery_drone.orders = <<>>

\* C10: deliver_orders attempts the head of the trip list, one trip per
\* iteration, and the iteration whose delivery fails ends the call: the
\* later trips stay in the trip list and the drone holds no order of them.
C10_Sequential ==
  [][ pc = "deliver" =>
        /\ trips # <<>>
        /\ trips' = Tail(trips)
        /\ event'.trip = Head(trips)
        /\ event'.rt.orders = delivery_drone.orders \o Head(trips)
        /\ event'.kind = "DeliveryException" =>
             /\ pc' = "idle"
             /\ delivery_drone'.orders \in {event'.rt.orders, <<>>} ]_vars

\* a delivery failed while later trips were waiting
C10_Witness ==
  /\ event.kind = "DeliveryException"
  /\ pc = "idle"
  /\ trips # <<>>
  /\ \A o \in Range(Flatten(trips)) : o \notin Range(event.trip)

\* C11 as stated: when the battery depletes during a delivery inside
\* DispatchServer.deliver_orders, the call ends by raising to its caller.
C11_Surfaced ==
  event.kind = "DeliveryException" => event.raised

\* what the code does: the call that met the depletion returned normally and
\* left the later trips in the trip list
C11_Swallowed ==
  /\ event.kind = "DeliveryException"
  /\ ~ event.raised
  /\ pc = "idle"
  /\ event.rt.ret = Depleted
  /\ delivery_drone.battery_charge = Depleted
\* C12 as stated: in every reachable state of a drone used through add_order,
\* remove_all_orders, deliver_orders and recharge, the stored battery level
\* is a fraction in [0, 1].
C12_ChargeInRange ==
  /\ 0 <= delivery_drone.battery_charge
  /\ delivery_drone.battery_charge <= Full

\* what the code does: a failed deliver_orders has stored run_trip's -1
C12_NegativeCharge ==
  /\ event.kind = "drone.DeliveryException"
  /\ event.rt.start = Full
  /\ delivery_drone.battery_charge = Depleted
\* the oldest (lowest-timestamp, first on ties) order of a non-empty list
Oldest(list) ==
  list[CHOOSE i \in 1..Len(list) :
         \A j \in 1..Len(list) :
            \/ objs[list[i]].timestamp < objs[list[j]].timestamp
            \/ objs[list[i]].timestamp = objs[list[j]].timestamp /\ i <= j]

\* the list is order A (zone 1, timestamp 0) then order B (zone 2,
\* timestamp 1), light enough to fly together
ZoneExample(list) ==
  /\ Len(list) = 2
  /\ objs[list[1]].delivery_zone = 1 /\ objs[list[1]].timestamp = 0
  /\ objs[list[2]].delivery_zone = 2 /\ objs[list[2]].timestamp = 1
  /\ run_trip(list, TRUE, Full).ret >= 0

\* C13 as stated: every trip the zone policy produces holds only orders for
\* the zone of the oldest order waiting when it is built, and from A (zone 1,
\* timestamp 0) and B (zone 2, timestamp 1) its first trip is exactly [A].
C13_OneZonePerTrip ==
  [][ pc = "schedule" =>
        /\ event'.kind = "trip" =>
             \A o \in Range(event'.trip) :
                objs[o].delivery_zone = objs[Oldest(heap)].delivery_zone
        /\ (call.iterations = 0 /\ ZoneExample(heap)) =>
             /\ event'.kind = "trip"
             /\ event'.trip = << heap[1] >> ]_vars

\* what the code does: schedule_orders on A and B ended in AttributeError
\* with no trip built
C13_NoTrip ==
  /\ event.kind = "AttributeError"
  /\ ZoneExample(unpackaged_orders)
  /\ trips = <<>>
  /\ pc = "idle"
\* the order cannot complete a round trip alone on a fully charged drone
Infeasible(o) == run_trip(<< o >>, TRUE, Full).ret = Depleted

\* C14 as stated: an order that cannot fly alone is never fatal.
\* find_best_order_position gives -1 for it on an empty drone, no scheduler
\* iteration raises with it among the candidates, no trip holds it,
\* build_trip returns an empty trip when it is the only candidate, and the
\* priority policy still builds a trip when another candidate can fly.
C14_NeverFatal ==
  [][ /\ \A o \in 1..Len(objs) :
           Infeasible(o) => find_best_order_position(<<>>, o) = 0 - 1
      /\ (pc \in {"optimal", "schedule"} /\ \E o \in Range(heap) : Infeasible(o)) =>
           /\ event'.kind \in {"trip", "dead_end"}
           /\ \A o \in Range(event'.trip) : ~ Infeasible(o)
      /\ (pc = "schedule" /\ Len(heap) = 1 /\ Infeasible(heap[1])) =>
           /\ event'.kind = "dead_end"
           /\ event'.trip = <<>>
      /\ (pc = "optimal" /\ \E o \in Range(heap) : ~ Infeasible(o)) =>
           event'.kind = "trip" ]_vars

\* what the code does: schedule_orders, with such an order as its only
\* candidate, ended in AttributeError
C14_Fatal ==
  /\ event.kind = "AttributeError"
  /\ Len(unpackaged_orders) = 1
  /\ Infeasible(unpackaged_orders[1])
  /\ call.n = 1
\* the key of the priority policy, written out
UrgencyKey(o) ==
  << (IF objs[o].perishable THEN 0 ELSE 2) + (IF objs[o].subscriber THEN 0 ELSE 1),
     objs[o].timestamp, objs[o].delivery_zone, objs[o].order_id >>

\* C15: in every iteration of the priority policy the candidate list holds
\* exactly the still-unscheduled orders, in strictly ascending order of the
\* key (priority_score, timestamp, zone, order_id); so every perishable order
\* precedes every non-perishable one, and among orders of equal
\* perishability every subscriber order precedes every non-subscriber one.
C15_Candidates ==
  pc = "optimal" =>
    /\ Len(heap) = Len(unpackaged_orders)
    /\ \A o \in 1..Len(objs) : Count(heap, o) = Count(unpackaged_orders, o)
    /\ \A i, j \in 1..Len(heap) :
         i < j =>
           /\ TupleLess(UrgencyKey(heap[i]), UrgencyKey(heap[j]))
           /\ objs[heap[j]].perishable => objs[heap[i]].perishable
           /\ (objs[heap[i]].perishable = objs[heap[j]].perishable
                 /\ objs[heap[j]].subscriber) => objs[heap[i]].subscriber

\* an iteration is about to run on a perishable order that was added after
\* the non-perishable order it now precedes
C15_Witness ==
  /\ pc = "optimal"
  /\ Len(heap) >= 2
  /\ heap # unpackaged_orders
  /\ objs[heap[1]].perishable
  /\ ~ objs[heap[2]].perishable
\* C16 as stated: the first element of the candidate list fixes the trip's
\* exclusion class: if it is fragile the returned trip holds no hazardous
\* order, if it is hazardous the trip holds no fragile order, also when the
\* first element itself has no feasible position.
C16_ClassOfFirst ==
  [][ pc = "optimal" =>
        /\ objs[heap[1]].fragile =>
             \A o \in Range(event'.trip) : ~ objs[o].hazardous
        /\ objs[heap[1]].hazardous =>
             \A o \in Range(event'.trip) : ~ objs[o].fragile ]_vars

\* C16: the exclusion class is set by the first accepted order.  When the
\* first element of the candidate list can fly alone it is accepted, and then
\* a fragile first element keeps every hazardous order out of the returned
\* trip and a hazardous one keeps every fragile order out; a first element
\* with no feasible position sets no class.
C16_ClassOfFirstAccepted ==
  [][ (pc = "optimal" /\ ~ Infeasible(heap[1])) =>
        /\ heap[1] \in Range(event'.trip)
        /\ objs[heap[1]].fragile =>
             \A o \in Range(event'.trip) : ~ objs[o].hazardous
        /\ objs[heap[1]].hazardous =>
             \A o \in Range(event'.trip) : ~ objs[o].fragile ]_vars

\* the most urgent candidate, fragile, is in the trip just built, and a
\* hazardous candidate that could have flown with the trip was left waiting
C16_Witness ==
  /\ event.kind = "trip"
  /\ pc = "optimal"
  /\ \E f \in Range(event.trip) :
       /\ objs[f].fragile
       /\ \A o \in (Range(event.trip) \cup Range(heap)) \ {f} :
            TupleLess(UrgencyKey(f), UrgencyKey(o))
  /\ \E h \in Range(heap) :
       /\ objs[h].hazardous
       /\ find_best_order_position(event.trip, h) >= 0

\* the most urgent candidate, fragile, found no position and is still
\* waiting; the trip built from the same list holds a hazardous order
C16_ClassOfPlaced ==
  /\ event.kind = "trip"
  /\ pc = "optimal"
  /\ objs[heap[1]].fragile
  /\ Infeasible(heap[1])
  /\ \E o \in Range(event.trip) : objs[o].hazardous
  /\ \A o \in Range(event.trip) : TupleLess(UrgencyKey(heap[1]), UrgencyKey(o))
\* the candidates of the customer of the first candidate, in list order
AnchorGroup(orders) ==
  SelectSeq(orders, LAMBDA o : objs[o].user_id = objs[orders[1]].user_id)

\* the orders the second loop of the last builder call came to
PhaseTwo ==
  SubSeq(event.attempted, Len(AnchorGroup(event.orders)) + 1, Len(event.attempted))

\* urgency without the tiebreaks: (priority_score, timestamp)
Urgency(o) == << priority_score(o), objs[o].timestamp >>

\* position of an order in the candidate list
PlaceIn(orders, o) == CHOOSE i \in 1..Len(orders) : orders[i] = o

\* C17 as stated: after the anchor group the remaining candidates are
\* attempted by urgency, a more urgent one before a less urgent one, and by
\* descending weight only among candidates of equal urgency.
C17_UrgencyThenWeight ==
  (event.kind = "build_most_optimal_trip" /\ event.orders # <<>>) =>
    \A i, j \in 1..Len(PhaseTwo) :
      i < j =>
        /\ ~ TupleLess(Urgency(PhaseTwo[j]), Urgency(PhaseTwo[i]))
        /\ Urgency(PhaseTwo[i]) = Urgency(PhaseTwo[j]) =>
             objs[PhaseTwo[i]].weight >= objs[PhaseTwo[j]].weight

\* C17: after the anchor group the remaining candidates are attempted
\* heaviest first, a heavier one before a lighter one whatever their
\* urgency, and by urgency only among candidates of equal weight.
C17_WeightThenUrgency ==
  (event.kind = "build_most_optimal_trip" /\ event.orders # <<>>) =>
    \A i, j \in 1..Len(PhaseTwo) :
      i < j =>
        /\ objs[PhaseTwo[i]].weight >= objs[PhaseTwo[j]].weight
        /\ objs[PhaseTwo[i]].weight = objs[PhaseTwo[j]].weight =>
             PlaceIn(event.orders, PhaseTwo[i]) < PlaceIn(event.orders, PhaseTwo[j])

\* the second loop came to a heavy order before a lighter, more urgent one
C17_Witness ==
  /\ event.kind = "build_most_optimal_trip"
  /\ event.orders # <<>>
  /\ \E i, j \in 1..Len(PhaseTwo) :
       /\ i < j
       /\ objs[PhaseTwo[i]].weight > objs[PhaseTwo[j]].weight
       /\ TupleLess(Urgency(PhaseTwo[j]), Urgency(PhaseTwo[i]))
\* C18: every candidate of the customer of the first candidate is attempted,
\* in urgency order, before any candidate of another customer; a member of
\* that group that is skipped does not end the group.
C18_AnchorGroupFirst ==
  (event.kind = "build_most_optimal_trip" /\ event.orders # <<>>) =>
    /\ Len(event.attempted) >= Len(AnchorGroup(event.orders))
    /\ SubSeq(event.attempted, 1, Len(AnchorGroup(event.orders)))
         = AnchorGroup(event.orders)

\* a member of the anchor group was skipped and a later member was
\* placed, although a candidate of another customer stood before that later
\* member in the candidate list
C18_Witness ==
  /\ event.kind = "build_most_optimal_trip"
  /\ event.orders # <<>>
  /\ \E i, j \in 1..Len(AnchorGroup(event.orders)) :
       /\ i < j
       /\ AnchorGroup(event.orders)[i] \notin Range(event.trip)
       /\ AnchorGroup(event.orders)[j] \in Range(event.trip)
       /\ \E o \in Range(event.orders) :
            /\ o \notin Range(AnchorGroup(event.orders))
            /\ PlaceIn(event.orders, o)
                 < PlaceIn(event.orders, AnchorGroup(event.orders)[j])

\* C19: the test drone's committed sequence is empty when a trip builder is
\* called and when the call has ended, by a return or by an exception, and
\* the trip a builder returns holds only orders of its candidate list.
C19_ScratchCleared ==
  [][ (pc = "optimal" \/ pc = "schedule") =>
        /\ payload_test_drone.orders = <<>>
        /\ Range(event'.trip) \subseteq Range(heap)
        /\ payload_test_drone'.orders = <<>> ]_vars

\* a second builder call of one scheduler run has returned a trip that
\* shares no order with the trip of the first call
C19_Witness ==
  /\ event.kind = "trip"
  /\ call.iterations = 2
  /\ Len(trips) >= 2
  /\ event.trip = trips[Len(trips)]
  /\ Range(trips[Len(trips)]) \cap Range(trips[Len(trips) - 1]) = {}
  /\ payload_test_drone.orders = <<>>
\* C20 as stated: build_trip compares the weight of the trip with the test
\* drone's weight_limit, skips an order that would exceed it and goes on
\* with the remaining orders, so the pass ends by returning a trip.
C20_WeightLimit ==
  [][ (pc = "schedule") =>
        /\ "weight_limit" \in DroneAttributes
        /\ event'.kind = "trip" \/ event'.kind = "dead_end" ]_vars

\* what the code does: the pass over two orders that can each fly alone
\* ended at the first weight test, with AttributeError and no trip
C20_PassAborted ==
  /\ event.kind = "AttributeError"
  /\ call.n = 2
  /\ call.iterations = 1
  /\ \A o \in Range(unpackaged_orders) : ~ Infeasible(o)
  /\ trips = <<>>
\* C21: with the delivery drone empty and fully charged and every waiting
\* trip feasible from full charge, an iteration of deliver_orders starts its
\* trip with battery 1, meets no delivery failure and leaves the drone empty
\* and at battery 1 again; the call ends with the trip list empty.
C21_NoFailure ==
  [][ ( /\ pc = "deliver"
        /\ delivery_drone = Drone
        /\ \A i \in 1..Len(trips) : run_trip(trips[i], TRUE, Full).ret >= 0 ) =>
        /\ event'.kind = "delivered"
        /\ event'.rt.start = Full
        /\ event'.rt.ret >= 0
        /\ delivery_drone' = Drone
        /\ trips' = Tail(trips)
        /\ pc' = "idle" <=> trips' = <<>> ]_vars

\* a call that delivered two trips, the second after a recharge, has ended
C21_Witness ==
  /\ event.kind = "delivered"
  /\ pc = "idle"
  /\ call.iterations >= 2
  /\ event.rt.start = Full
  /\ event.rt.ret < Full
  /\ trips = <<>>
  /\ delivery_drone = Drone
\* C22: a feasibility probe, run_trip with simulated_trip = True or
\* find_best_order_position, leaves the drone's committed orders, the list
\* passed in and the stored battery_charge as they were, whatever it returns.
C22_ProbeNoEffect ==
  [][ /\ event'.kind = "drone.run_trip" =>
           /\ delivery_drone' = delivery_drone
           /\ event'.rt.after = event'.rt.orders
      /\ event'.kind = "drone.find_best_order_position" =>
           delivery_drone' = delivery_drone ]_vars

\* a probe of a loaded, partly discharged drone has reported depletion
C22_Witness ==
  /\ event.kind = "drone.run_trip"
  /\ event.rt.ret = Depleted
  /\ event.rt.after # <<>>
  /\ delivery_drone.orders = event.rt.orders
  /\ delivery_drone.battery_charge > 0
  /\ delivery_drone.battery_charge < Full
\* C23: once a delivery has failed in deliver_orders the delivery drone
\* stays depleted as long as nobody recharges it, and an iteration of a
\* later deliver_orders call removes one trip from the trip list, loads its
\* orders onto the drone, delivers no order and fails again, ending the call.
C23_Stuck ==
  [][ /\ delivery_drone.battery_charge < 0 => delivery_drone'.battery_charge < 0
      /\ (pc = "deliver" /\ delivery_drone.battery_charge < 0) =>
           /\ trips' = Tail(trips)
           /\ event'.kind = "DeliveryException"
           /\ event'.rt.orders = delivery_drone.orders \o Head(trips)
           /\ event'.rt.legs = 1
           /\ delivery_drone'.orders = delivery_drone.orders \o Head(trips)
           /\ delivery_drone'.battery_charge = Depleted
           /\ pc' = "idle" ]_vars

\* a second call has failed on its first leg, on a drone that an earlier
\* failure had left depleted, with the orders of its trip still on board
C23_Witness ==
  /\ event.kind = "DeliveryException"
  /\ event.rt.start = Depleted
  /\ event.rt.legs = 1
  /\ call.iterations = 1
  /\ event.trip # <<>>
  /\ delivery_drone.orders = event.before \o event.trip
  /\ delivery_drone.battery_charge = Depleted
====
